---- MODULE Spec2Model ----
(***************************************************************************)
(* Model of the postcode reconciliation of Nominatim                      *)
(* (src/src/nominatim_db/tools/postcodes.py): _to_float, the per-country   *)
(* _PostcodeCollector (add, commit, _compute_changes,                      *)
(* _update_from_external, _open_external) and the driver update_postcodes. *)
(*                                                                         *)
(* Coordinates are integers in units of 1e-7 degree, so that the tolerance *)
(* 0.0000001 of _compute_changes is exactly one unit and the bounds 180    *)
(* and 90 of _to_float are 1800000000 and 900000000 units.                 *)
(***************************************************************************)
EXTENDS Integers, Sequences, FiniteSets, TLC

VARIABLES
    stored,         \* table location_postcode as seen by the open connection
    durable,        \* table location_postcode as of the last conn.commit()
    src,            \* result of the placex_postcodes query (ordered by cc, pc)
    project_dir,    \* None or the content of the project directory
    pc,             \* position inside update_postcodes
    todo_countries, \* local variable todo_countries
    todo_iter,      \* countries the loop "for country in todo_countries" has left
    cursor,         \* rows the placex_postcodes cursor has not yet returned
    collector,      \* local variable collector (None or a _PostcodeCollector)
    commitLog,      \* one record per _PostcodeCollector.commit of this pass
    addLog,         \* what the last collector.add call did
    raised,         \* exception that left update_postcodes, or None
    txnCommits,     \* number of conn.commit() calls of this pass
    refreshCalls,   \* number of analyzer.update_postcodes_from_db() calls
    passNo,         \* number of the update_postcodes run
    startTable,     \* table when the current pass started
    prevTable,      \* table when the previous pass had finished
    fl_numstr,      \* argument numstr of a _to_float call
    fl_max,         \* argument max_value of a _to_float call
    fl_res,         \* outcome of that _to_float call
    fl_pc           \* position inside that _to_float call

vars == <<stored, durable, src, project_dir, pc, todo_countries, todo_iter,
          cursor, collector, commitLog, addLog, raised, txnCommits,
          refreshCalls, passNo, startTable, prevTable,
          fl_numstr, fl_max, fl_res, fl_pc>>

passVars == <<stored, durable, src, project_dir, pc, todo_countries, todo_iter,
              cursor, collector, commitLog, addLog, raised, txnCommits,
              refreshCalls, passNo, startTable, prevTable>>

floatVars == <<fl_numstr, fl_max, fl_res, fl_pc>>

(***************************************************************************)
(* Python values                                                           *)
(***************************************************************************)
\* Python's None where a str is expected (no postcode is spelled like this)
None == "<None>"

\* Python's None where the text of a csv field is expected; a text is a
\* sequence of one-character strings, so no text equals this value
NoneTxt == <<"<None>">>

RECURSIVE Pow10(_)
Pow10(n) == IF n = 0 THEN 1 ELSE 10 * Pow10(n - 1)

\* units of the integer coordinates per degree: seven decimal places
Scale == Pow10(7)

Digits == {"0", "1", "2", "3", "4", "5", "6", "7", "8", "9"}

DigitVal(c) ==
    CASE c = "0" -> 0 [] c = "1" -> 1 [] c = "2" -> 2 [] c = "3" -> 3
      [] c = "4" -> 4 [] c = "5" -> 5 [] c = "6" -> 6 [] c = "7" -> 7
      [] c = "8" -> 8 [] c = "9" -> 9

RECURSIVE DigitsVal(_)
DigitsVal(s) ==
    IF s = <<>> THEN 0
    ELSE DigitsVal(SubSeq(s, 1, Len(s) - 1)) * 10 + DigitVal(s[Len(s)])

IsDigits(s) == \A i \in 1..Len(s) : s[i] \in Digits

\* results of float(): a finite number, nan, +-inf, or the exception raised
Num(v) == [k |-> "num", v |-> v]
NaN == [k |-> "nan", v |-> 0]
Inf(sgn) == [k |-> "inf", v |-> sgn]
Raise(exc) == [k |-> exc, v |-> 0]

IsRaise(r) == r.k \in {"ValueError", "TypeError"}

\* the value of the digits ip before and fp after the decimal point
Decimal(sgn, ip, fp) ==
    IF \/ ~IsDigits(ip)
       \/ ~IsDigits(fp)
       \/ Len(ip) + Len(fp) = 0
       \/ Len(fp) > 7
    THEN Raise("ValueError")
    ELSE Num(sgn * (DigitsVal(ip) * Scale + DigitsVal(fp) * Pow10(7 - Len(fp))))

\* the value of an unsigned literal whose decimal points are at dots
Unsigned(sgn, body, dots) ==
    IF body = <<"n", "a", "n">> THEN NaN
    ELSE IF body = <<"i", "n", "f">> THEN Inf(sgn)
    ELSE IF Cardinality(dots) > 1 THEN Raise("ValueError")
    ELSE IF dots = {} THEN Decimal(sgn, body, <<>>)
    ELSE Decimal(sgn, SubSeq(body, 1, (CHOOSE i \in dots : TRUE) - 1),
                 SubSeq(body, (CHOOSE i \in dots : TRUE) + 1, Len(body)))

Signed(sgn, body) == Unsigned(sgn, body, {i \in 1..Len(body) : body[i] = "."})

\* Python's float(numstr) on the decimal literals [sign] digits [. digits],
\* [sign] . digits, [sign] nan and [sign] inf; float(None) is a TypeError,
\* every other text a ValueError (texts have at most seven decimal places).
PyFloat(numstr) ==
    IF numstr = NoneTxt THEN Raise("TypeError")
    ELSE IF Len(numstr) > 0 /\ numstr[1] = "-" THEN Signed(-1, Tail(numstr))
    ELSE IF Len(numstr) > 0 /\ numstr[1] = "+" THEN Signed(1, Tail(numstr))
    ELSE Signed(1, numstr)

isfinite(num) == num.k = "num"

(***************************************************************************)
(* _to_float                                                               *)
(***************************************************************************)
\* the range test of _to_float on the result of float(numstr)
InRange(num, max_value) ==
    IF IsRaise(num) THEN num
    ELSE IF ~isfinite(num) \/ num.v <= -(max_value * Scale)
            \/ num.v >= max_value * Scale
    THEN Raise("ValueError")
    ELSE num

\* mutant: the closed interval, the bounds themselves pass
_to_float_closed(numstr, max_value) ==
    LET num == PyFloat(numstr)
    IN  IF IsRaise(num) THEN num
        ELSE IF ~isfinite(num) \/ num.v < -(max_value * Scale)
                \/ num.v > max_value * Scale
        THEN Raise("ValueError")
        ELSE num

\* _to_float(numstr, max_value): the float, or the exception it raises
_to_float(numstr, max_value) == InRange(PyFloat(numstr), max_value)

(***************************************************************************)
(* Collaborators of the collector that are not part of postcodes.py        *)
(***************************************************************************)
Countries == {"aq", "de", "fr"}

\* PostcodeFormatter.get_matcher(country): None for a country without a
\* postcode system, else the matcher of the country (named by the country)
get_matcher(country) == IF country = "aq" THEN None ELSE country

\* CountryPostcodeMatcher.match(postcode): the match (here the matched
\* candidate) or None
match(matcher, postcode) ==
    CASE matcher = "de" /\ postcode = "00000" -> "00000"
      [] matcher = "de" /\ postcode = "10115" -> "10115"
      [] matcher = "de" /\ postcode = "D-10115" -> "10115"
      [] matcher = "fr" /\ postcode = "75001" -> "75001"
      [] OTHER -> None

\* CountryPostcodeMatcher.normalize(match): the canonical postcode or None
normalize(matcher, m) == IF m = "00000" THEN None ELSE m

\* AbstractAnalyzer.normalize_postcode(postcode): upper case, no outer blanks
normalize_postcode(postcode) ==
    CASE postcode = " 10115" -> "10115"
      [] postcode = " 20095" -> "20095"
      [] OTHER -> postcode

\* PointsCentroid(): the accumulator with nothing folded
PointsCentroid == [sum_x |-> 0, sum_y |-> 0, count |-> 0]

\* PointsCentroid.__iadd__((x, y))
fold(acc, x, y) ==
    [sum_x |-> acc.sum_x + x, sum_y |-> acc.sum_y + y, count |-> acc.count + 1]

\* PointsCentroid.centroid(): the mean point (the model folds coordinates
\* whose sums divide evenly)
centroid(acc) == <<acc.sum_x \div acc.count, acc.sum_y \div acc.count>>

(***************************************************************************)
(* _PostcodeCollector                                                      *)
(***************************************************************************)
\* the empty dict
EmptyDict == [k \in {} |-> PointsCentroid]

\* self.collected[key] += (x, y) on a defaultdict(PointsCentroid)
FoldInto(collected, key, x, y) ==
    [k \in DOMAIN collected \cup {key} |->
        IF k = key
        THEN fold(IF key \in DOMAIN collected THEN collected[key]
                  ELSE PointsCentroid, x, y)
        ELSE collected[k]]

\* _PostcodeCollector(country, matcher); normalization_cache is <<>> for
\* None and <<postcode, normalized>> for the tuple
NewCollector(country, matcher) ==
    [country |-> country, matcher |-> matcher, collected |-> EmptyDict,
     normalization_cache |-> <<>>]

\* Python truth value of an Optional[str]
Truthy(str) == str /= None /\ str /= ""

\* mutant: without a matcher the raw postcode is the key
add_raw(self, postcode, x, y) ==
    IF self.matcher /= None
    THEN LET hit == /\ self.normalization_cache /= <<>>
                    /\ self.normalization_cache[1] = postcode
             m == match(self.matcher, postcode)
             normalized ==
                IF hit THEN self.normalization_cache[2]
                ELSE IF m /= None THEN normalize(self.matcher, m) ELSE None
         IN  [self EXCEPT
                !.normalization_cache =
                    IF hit THEN @ ELSE <<postcode, normalized>>,
                !.collected =
                    IF Truthy(normalized) THEN FoldInto(@, normalized, x, y)
                    ELSE @]
    ELSE [self EXCEPT !.collected = FoldInto(@, postcode, x, y)]

\* mutant: a postcode that is dropped is looked up in the defaultdict,
\* which creates its accumulator with nothing folded
add_getitem(self, postcode, x, y) ==
    IF self.matcher /= None
    THEN LET hit == /\ self.normalization_cache /= <<>>
                    /\ self.normalization_cache[1] = postcode
             m == match(self.matcher, postcode)
             normalized ==
                IF hit THEN self.normalization_cache[2]
                ELSE IF m /= None THEN normalize(self.matcher, m) ELSE None
         IN  [self EXCEPT
                !.normalization_cache =
                    IF hit THEN @ ELSE <<postcode, normalized>>,
                !.collected =
                    IF Truthy(normalized) THEN FoldInto(@, normalized, x, y)
                    ELSE [k \in DOMAIN @ \cup {postcode} |->
                            IF k \in DOMAIN @ THEN @[k] ELSE PointsCentroid]]
    ELSE self

\* mutant: the cache is used whatever raw postcode it holds
add_anyhit(self, postcode, x, y) ==
    IF self.matcher /= None
    THEN LET hit == self.normalization_cache /= <<>>
             m == match(self.matcher, postcode)
             normalized ==
                IF hit THEN self.normalization_cache[2]
                ELSE IF m /= None THEN normalize(self.matcher, m) ELSE None
         IN  [self EXCEPT
                !.normalization_cache =
                    IF hit THEN @ ELSE <<postcode, normalized>>,
                !.collected =
                    IF Truthy(normalized) THEN FoldInto(@, normalized, x, y)
                    ELSE @]
    ELSE self

\* _PostcodeCollector.add(postcode, x, y): the collector afterwards
add(self, postcode, x, y) ==
    IF self.matcher /= None
    THEN LET hit == /\ self.normalization_cache /= <<>>
                    /\ self.normalization_cache[1] = postcode
             m == match(self.matcher, postcode)
             normalized ==
                IF hit THEN self.normalization_cache[2]
                ELSE IF m /= None THEN normalize(self.matcher, m) ELSE None
         IN  [self EXCEPT
                !.normalization_cache =
                    IF hit THEN @ ELSE <<postcode, normalized>>,
                !.collected =
                    IF Truthy(normalized) THEN FoldInto(@, normalized, x, y)
                    ELSE @]
    ELSE self

(***************************************************************************)
(* External postcode files                                                 *)
(***************************************************************************)
\* The files a project directory of the model can hold, by number. A file is
\* its header line (fieldnames) and its data lines; a coordinate field is a
\* text (a sequence of characters), a postcode field a string.
ExtFile(id) ==
    CASE id = 1 ->
           [fieldnames |-> <<"postcode", "lat", "lon">>,
            lines |-> << <<" 10115", <<"0", ".", "0", "0", "0", "0", "0", "2", "4">>,
                                     <<"0", ".", "0", "0", "0", "0", "0", "2", "4">> >>,
                         <<" 20095", <<"0", ".", "0", "0", "0", "0", "0", "0", "6">>,
                                     <<"0", ".", "0", "0", "0", "0", "0", "1", "2">> >> >>]
      [] id = 2 ->
           [fieldnames |-> <<"postcode", "lat", "lon">>,
            lines |-> << <<"20095", <<"9", "0", ".", "0">>, <<"0", ".", "0">> >>,
                         <<"20095", <<"0", ".", "0">>, <<"a", "b", "c">> >>,
                         <<"20095", <<"0", ".", "0", "0", "0", "0", "0", "0", "6">>,
                                    <<"0", ".", "0", "0", "0", "0", "0", "0", "6">> >>,
                         <<"20095", <<"0", ".", "0", "0", "0", "0", "0", "1", "2">>,
                                    <<"0", ".", "0", "0", "0", "0", "0", "1", "2">> >>,
                         <<"30159", <<"-", "8", "9", ".", "9">>,
                                    <<"1", "7", "9", ".", "9", "9", "9", "9", "9", "9">> >>,
                         <<"40210", <<"0">>, <<"-", "1", "8", "0", ".", "0">> >>,
                         <<"50667", <<"n", "a", "n">>, <<"0">> >> >>]
      [] id = 3 ->
           [fieldnames |-> <<"postcode", "lat">>,
            lines |-> << <<"20095", <<"0", ".", "0">> >> >>]
      [] id = 4 ->
           [fieldnames |-> <<"postcode", "lat", "lon">>,
            lines |-> << <<"10115", <<"0", ".", "0">>, <<"1", "8", "1">> >>,
                         <<"20095", <<"0", ".", "0">> >>,
                         <<"30159", <<"0", ".", "0">>, <<"0", ".", "0">> >> >>]

\* csv.DictReader(csvfile): one dict per data line, keyed by the header's
\* fieldnames; a field the line is too short for is None (restval)
DictReader(csvfile) ==
    LET names == csvfile.fieldnames
        idx(f) == CHOOSE i \in 1..Len(names) : names[i] = f
    IN  [n \in 1..Len(csvfile.lines) |->
            [f \in {names[i] : i \in 1..Len(names)} |->
                IF idx(f) <= Len(csvfile.lines[n])
                THEN csvfile.lines[n][idx(f)]
                ELSE NoneTxt]]

\* A project directory: for every country the number of the file
\* <country>_postcodes.csv and of <country>_postcodes.csv.gz, 0 for no file
NoFiles == [c \in Countries |-> [csv |-> 0, gz |-> 0]]

Dirs ==
    { NoFiles,
      [NoFiles EXCEPT !["de"] = [csv |-> 1, gz |-> 0]],
      [NoFiles EXCEPT !["de"] = [csv |-> 2, gz |-> 0],
                      !["fr"] = [csv |-> 0, gz |-> 1]],
      [NoFiles EXCEPT !["de"] = [csv |-> 3, gz |-> 0],
                      !["fr"] = [csv |-> 1, gz |-> 0]],
      [NoFiles EXCEPT !["de"] = [csv |-> 4, gz |-> 0],
                      !["aq"] = [csv |-> 1, gz |-> 0]],
      [NoFiles EXCEPT !["de"] = [csv |-> 3, gz |-> 1],
                      !["aq"] = [csv |-> 0, gz |-> 2]] }

\* _PostcodeCollector._open_external(project_dir): the file, 0 for None
_open_external(country, dir) ==
    IF dir[country].csv /= 0 THEN dir[country].csv
    ELSE IF dir[country].gz /= 0 THEN dir[country].gz
    ELSE 0

\* the body of the loop "for row in reader" for a row with all columns and
\* a postcode that is not collected: lon and lat are the outcomes of the two
\* _to_float calls, evaluated in this order
FoldRow(collected, postcode, lon, lat) ==
    IF lon.k = "TypeError" THEN [collected |-> collected, raised |-> "TypeError"]
    ELSE IF lon.k = "ValueError" THEN [collected |-> collected, raised |-> None]
    ELSE IF lat.k = "TypeError" THEN [collected |-> collected, raised |-> "TypeError"]
    ELSE IF lat.k = "ValueError" THEN [collected |-> collected, raised |-> None]
    ELSE [collected |-> FoldInto(collected, postcode, lon.v, lat.v),
          raised |-> None]

\* mutant: the row is folded whether or not its postcode is collected
ReadRow_always(collected, row, postcode) ==
    FoldRow(collected, postcode, _to_float(row["lon"], 180),
            _to_float(row["lat"], 90))

\* mutant: a valid row replaces what is collected for its postcode
ReadRow_last(collected, row, postcode) ==
    IF /\ _to_float(row["lon"], 180).k = "num"
       /\ _to_float(row["lat"], 90).k = "num"
    THEN [collected |->
            [k \in DOMAIN collected \cup {postcode} |->
                IF k = postcode
                THEN fold(PointsCentroid, _to_float(row["lon"], 180).v,
                          _to_float(row["lat"], 90).v)
                ELSE collected[k]],
          raised |-> None]
    ELSE IF postcode \in DOMAIN collected
    THEN [collected |-> collected, raised |-> None]
    ELSE FoldRow(collected, postcode, _to_float(row["lon"], 180),
                 _to_float(row["lat"], 90))

\* the body of the loop for a row with all columns
ReadRow(collected, row, postcode) ==
    IF postcode \in DOMAIN collected
    THEN [collected |-> collected, raised |-> None]
    ELSE FoldRow(collected, postcode, _to_float(row["lon"], 180),
                 _to_float(row["lat"], 90))

\* whether the loop returns at this row: a column is missing
BadFormat(row) ==
    \/ "postcode" \notin DOMAIN row
    \/ "lat" \notin DOMAIN row
    \/ "lon" \notin DOMAIN row

\* mutant: a file without a required column raises instead of returning
RECURSIVE ReadRows_raise(_, _, _)
ReadRows_raise(state, rows, i) ==
    IF i > Len(rows) \/ state.raised /= None THEN state
    ELSE IF BadFormat(rows[i]) THEN [state EXCEPT !.raised = "UsageError"]
    ELSE ReadRows_raise(ReadRow(state.collected, rows[i],
                                normalize_postcode(rows[i]["postcode"])),
                        rows, i + 1)

\* the loop "for row in reader" of _update_from_external from row i on: the
\* mapping when the loop is left, and the exception that left it (None: none)
RECURSIVE ReadRows(_, _, _)
ReadRows(state, rows, i) ==
    IF i > Len(rows) \/ state.raised /= None THEN state
    ELSE IF BadFormat(rows[i]) THEN state
    ELSE ReadRows(ReadRow(state.collected, rows[i],
                          normalize_postcode(rows[i]["postcode"])),
                  rows, i + 1)

\* _PostcodeCollector._update_from_external(analyzer, project_dir)
_update_from_external(self, dir) ==
    LET csvfile == _open_external(self.country, dir)
    IN  IF csvfile = 0 THEN [collected |-> self.collected, raised |-> None]
        ELSE ReadRows([collected |-> self.collected, raised |-> None],
                      DictReader(ExtFile(csvfile)), 1)

(***************************************************************************)
(* _compute_changes and commit                                             *)
(***************************************************************************)
\* the tolerance 0.0000001 of _compute_changes in units of 1e-7 degree
Tolerance == 1

\* a row of location_postcode: country_code, postcode, ST_X(geometry),
\* ST_Y(geometry), indexed_status (place_id is written and never read)
Row(cc, postcode, x, y, st) ==
    [cc |-> cc, pc |-> postcode, x |-> x, y |-> y, st |-> st]

\* mutant: the SELECT returns no row
RowsOf_none(table, country) == {}

\* SELECT postcode, ST_X(geometry), ST_Y(geometry) FROM location_postcode
\* WHERE country_code = country
RowsOf(table, country) == {r \in table : r.cc = country}

\* mutant: the distance counts in both directions
NeedsUpdate_abs(x, y, newx, newy) ==
    \/ (x - newx) > Tolerance \/ (newx - x) > Tolerance
    \/ (y - newy) > Tolerance \/ (newy - y) > Tolerance

\* the test of _compute_changes that sends a stored postcode to to_update
NeedsUpdate(x, y, newx, newy) ==
    (x - newx) > Tolerance \/ (y - newy) > Tolerance

\* the loop "for postcode, x, y in cur" of _compute_changes, the rows taken
\* in the order the cursor returns them (SQL fixes none)
RECURSIVE DiffRows(_, _, _, _)
DiffRows(collected, rows, to_update, to_delete) ==
    IF rows = {}
    THEN [collected |-> collected, to_update |-> to_update,
          to_delete |-> to_delete]
    ELSE
    LET r == CHOOSE q \in rows : TRUE
        found == r.pc \in DOMAIN collected
        popped == [k \in DOMAIN collected \ {r.pc} |-> collected[k]]
        new == centroid(collected[r.pc])
    IN  IF found
        THEN DiffRows(popped, rows \ {r},
                      IF NeedsUpdate(r.x, r.y, new[1], new[2])
                      THEN to_update \cup {<<new[1], new[2], r.pc>>}
                      ELSE to_update,
                      to_delete)
        ELSE DiffRows(collected, rows \ {r}, to_update,
                      to_delete \cup {r.pc})

\* mutant: every collected postcode is added, the stored ones too
_compute_changes_nopop(collected, rows) ==
    LET d == DiffRows(collected, rows, {}, {})
    IN  [to_add |-> {<<k, centroid(collected[k])[1],
                       centroid(collected[k])[2]>> : k \in DOMAIN collected},
         to_delete |-> d.to_delete,
         to_update |-> d.to_update]

\* _PostcodeCollector._compute_changes(conn): to_add, to_delete, to_update
\* (the lists as sets; rows is the result of the SELECT)
_compute_changes(collected, rows) ==
    LET d == DiffRows(collected, rows, {}, {})
    IN  [to_add |-> {<<k, centroid(d.collected[k])[1],
                       centroid(d.collected[k])[2]>> : k \in DOMAIN d.collected},
         to_delete |-> d.to_delete,
         to_update |-> d.to_update]

\* mutant: the INSERT writes indexed_status 0
Insert_indexed(table, country, to_add) ==
    table \cup {Row(country, t[1], t[2], t[3], 0) : t \in to_add}

\* INSERT INTO location_postcode ... VALUES (nextval('seq_place'), 1,
\* country, postcode, point) for every tuple of to_add
Insert(table, country, to_add) ==
    table \cup {Row(country, t[1], t[2], t[3], 1) : t \in to_add}

\* mutant: the DELETE misses the country_code of the WHERE clause
Delete_any_country(table, country, to_delete) ==
    {r \in table : r.pc \notin to_delete}

\* mutant: the DELETE is never executed
Delete_none(table, country, to_delete) == table

\* DELETE FROM location_postcode WHERE country_code = country
\* and postcode = any(to_delete)
Delete(table, country, to_delete) ==
    {r \in table : ~(r.cc = country /\ r.pc \in to_delete)}

\* mutant: the update marks the row and leaves its geometry
Update_status_only(table, country, to_update) ==
    {IF r.cc = country /\ (\E t \in to_update : t[3] = r.pc)
     THEN [r EXCEPT !.st = 2]
     ELSE r : r \in table}

\* UPDATE location_postcode SET indexed_status = 2, geometry = point
\* WHERE country_code = country and postcode = postcode, for every tuple
\* of to_update
Update(table, country, to_update) ==
    {IF r.cc = country /\ (\E t \in to_update : t[3] = r.pc)
     THEN LET t == CHOOSE t \in to_update : t[3] = r.pc
          IN  [r EXCEPT !.st = 2, !.x = t[1], !.y = t[2]]
     ELSE r : r \in table}

\* _PostcodeCollector.commit(conn, analyzer, project_dir): the table and
\* the collector afterwards, the exception raised (None: none), and the
\* record of the call that commitLog keeps. project_dir is <<>> for None
\* and <<dir>> for a directory.
commit(self, table, dir, kind) ==
    LET ext == IF dir /= <<>> THEN _update_from_external(self, dir[1])
               ELSE [collected |-> self.collected, raised |-> None]
        rows == RowsOf(table, self.country)
        diff == _compute_changes(ext.collected, rows)
        entry == [country |-> self.country, kind |-> kind,
                  pre |-> self.collected, merged |-> ext.collected,
                  rows |-> rows, raised |-> ext.raised,
                  to_add |-> IF ext.raised = None THEN diff.to_add ELSE {},
                  to_delete |-> IF ext.raised = None THEN diff.to_delete ELSE {},
                  to_update |-> IF ext.raised = None THEN diff.to_update ELSE {}]
    IN  IF ext.raised /= None
        THEN [table |-> table,
              self |-> [self EXCEPT !.collected = ext.collected],
              raised |-> ext.raised, entry |-> entry]
        ELSE [table |-> Update(Delete(Insert(table, self.country, diff.to_add),
                                      self.country, diff.to_delete),
                               self.country, diff.to_update),
              self |-> [self EXCEPT !.collected = EmptyDict],
              raised |-> None, entry |-> entry]

\* the exception a failing storage operation raises (a psycopg.Error)
DatabaseError == "DatabaseError"

\* the statements of a commit, in the order they are executed
StorageOps == {"select", "insert", "delete", "update"}

\* whether a commit with this diff executes the statement
Executes(op, diff) ==
    CASE op = "select" -> TRUE
      [] op = "insert" -> diff.to_add /= {}
      [] op = "delete" -> diff.to_delete /= {}
      [] op = "update" -> diff.to_update /= {}

\* the table the connection is left with when statement op of a commit
\* fails: the statements before it are applied, and of a failing
\* executemany the tuples in done
PartialTable(table, country, diff, op, done) ==
    CASE op = "select" -> table
      [] op = "insert" -> Insert(table, country, done)
      [] op = "delete" -> Insert(table, country, diff.to_add)
      [] op = "update" ->
            Update(Delete(Insert(table, country, diff.to_add),
                          country, diff.to_delete), country, done)

\* the tuples a failing executemany of statement op can have executed
DoneSets(diff, op) ==
    CASE op = "insert" -> SUBSET diff.to_add \ {diff.to_add}
      [] op = "update" -> SUBSET diff.to_update \ {diff.to_update}
      [] OTHER -> {{}}

\* _PostcodeCollector.commit(conn, analyzer, project_dir) when its
\* statement op raises: the result as commit gives it
commit_fail(self, table, dir, kind, op, done) ==
    LET ext == IF dir /= <<>> THEN _update_from_external(self, dir[1])
               ELSE [collected |-> self.collected, raised |-> None]
        rows == RowsOf(table, self.country)
        diff == _compute_changes(ext.collected, rows)
    IN  [table |-> PartialTable(table, self.country, diff, op, done),
         self |-> [self EXCEPT !.collected =
                      IF op = "select" THEN ext.collected ELSE EmptyDict],
         raised |-> DatabaseError,
         entry |-> [country |-> self.country, kind |-> kind,
                    pre |-> self.collected, merged |-> ext.collected,
                    rows |-> rows, raised |-> DatabaseError,
                    to_add |-> {}, to_delete |-> {}, to_update |-> {}]]

\* whether statement op of the commit is reached and executed
Reaches(self, table, dir, op) ==
    LET ext == IF dir /= <<>> THEN _update_from_external(self, dir[1])
               ELSE [collected |-> self.collected, raised |-> None]
    IN  /\ ext.raised = None
        /\ Executes(op, _compute_changes(ext.collected,
                                         RowsOf(table, self.country)))

\* the tuples a failing statement op of the commit can have executed
DoneOf(self, table, dir, op) ==
    LET ext == IF dir /= <<>> THEN _update_from_external(self, dir[1])
               ELSE [collected |-> self.collected, raised |-> None]
    IN  DoneSets(_compute_changes(ext.collected, RowsOf(table, self.country)),
                 op)

(***************************************************************************)
(* Inputs of a run                                                         *)
(***************************************************************************)
\* longest result of the placex_postcodes query
MaxStream == 3

\* most rows of location_postcode before the first pass
MaxStored == 2

\* most runs of update_postcodes in a row
MaxPasses == 2

SrcRow(cc, postcode, x, y) == [cc |-> cc, pc |-> postcode, x |-> x, y |-> y]

\* rows (cc, pc, ST_X(centroid), ST_Y(centroid)) the query can return
StreamRows ==
    { SrcRow("aq", "7", 0, 0),
      SrcRow("de", "00000", 0, 0),
      SrcRow("de", "10115", 0, 0),
      SrcRow("de", "1011X", 0, 0),
      SrcRow("de", "D-10115", 12, 12),
      SrcRow("fr", "75001", 12, 12) }

\* position of a row under ORDER BY cc, pc
OrderKey(row) ==
    CASE row.cc = "aq" -> 1
      [] row.cc = "de" /\ row.pc = "00000" -> 2
      [] row.cc = "de" /\ row.pc = "10115" -> 3
      [] row.cc = "de" /\ row.pc = "1011X" -> 4
      [] row.cc = "de" /\ row.pc = "D-10115" -> 5
      [] row.cc = "fr" -> 6

\* the results the query can have
Streams ==
    UNION { { s \in [1..n -> StreamRows] :
                \A i \in 1..(n - 1) : OrderKey(s[i]) <= OrderKey(s[i + 1]) }
            : n \in 0..MaxStream }

\* rows location_postcode can hold before the first pass, all of them
\* indexed (indexed_status 0; update_postcodes never reads the status)
InitRows ==
    { Row("de", "10115", 1, 1, 0),
      Row("de", "10115", 0, 2, 0),
      Row("de", "10115", 0, -2, 0),
      Row("de", "20095", 12, 6, 0),
      Row("fr", "75002", 0, 0, 0),
      Row("aq", "7", 0, 0, 0) }

\* at most one row per (country_code, postcode)
UniqueKeys(table) ==
    \A r, q \in table : (r.cc = q.cc /\ r.pc = q.pc) => r = q

InitTables ==
    { t \in SUBSET InitRows : UniqueKeys(t) /\ Cardinality(t) <= MaxStored }

(***************************************************************************)
(* update_postcodes                                                        *)
(***************************************************************************)
Init ==
    /\ stored \in InitTables
    /\ durable = stored
    /\ src \in Streams
    /\ project_dir \in {<<>>} \cup {<<d>> : d \in Dirs}
    /\ pc = "idle"
    /\ todo_countries = {}
    /\ todo_iter = {}
    /\ cursor = <<>>
    /\ collector = <<>>
    /\ commitLog = <<>>
    /\ addLog = <<>>
    /\ raised = None
    /\ txnCommits = 0
    /\ refreshCalls = 0
    /\ passNo = 1
    /\ startTable = stored
    /\ prevTable = stored
    /\ fl_numstr = <<>>
    /\ fl_max = 0
    /\ fl_res = <<>>
    /\ fl_pc = "off"

\* SELECT DISTINCT country_code FROM location_postcode, and the execute of
\* the placex_postcodes query
ReadCountries ==
    /\ pc = "idle"
    /\ todo_countries' = {r.cc : r \in stored}
    /\ todo_iter' = {}
    /\ cursor' = src
    /\ collector' = <<>>
    /\ commitLog' = <<>>
    /\ addLog' = <<>>
    /\ txnCommits' = 0
    /\ refreshCalls' = 0
    /\ startTable' = stored
    /\ pc' = "stream"
    /\ UNCHANGED <<stored, durable, src, project_dir, raised, passNo, prevTable>>
    /\ UNCHANGED floatVars

\* mutant: the country of the stream stays in todo_countries
discard_never(set, elem) == set

\* set.discard(elem): the set afterwards
discard(set, elem) == set \ {elem}

\* one turn of "for country, postcode, x, y in cur"
StreamRow ==
    /\ pc = "stream"
    /\ cursor /= <<>>
    /\ LET row == Head(cursor)
           switch == collector = <<>> \/ row.cc /= collector[1].country
           flush == switch /\ collector /= <<>>
           c == commit(collector[1], stored, project_dir, "stream")
           opened == IF switch THEN NewCollector(row.cc, get_matcher(row.cc))
                     ELSE collector[1]
           added == add(opened, row.pc, row.x, row.y)
       IN  IF flush /\ c.raised /= None
           THEN /\ pc' = "aborted"
                /\ raised' = c.raised
                /\ stored' = c.table
                /\ collector' = <<c.self>>
                /\ commitLog' = Append(commitLog, c.entry)
                /\ UNCHANGED <<cursor, todo_countries, addLog>>
           ELSE /\ stored' = IF flush THEN c.table ELSE stored
                /\ commitLog' = IF flush THEN Append(commitLog, c.entry)
                                ELSE commitLog
                /\ todo_countries' = IF switch
                                     THEN discard(todo_countries, row.cc)
                                     ELSE todo_countries
                /\ collector' = <<added>>
                /\ addLog' = <<[before |-> opened, postcode |-> row.pc,
                                x |-> row.x, y |-> row.y, after |-> added]>>
                /\ cursor' = Tail(cursor)
                /\ UNCHANGED <<pc, raised>>
    /\ UNCHANGED <<durable, src, project_dir, todo_iter, txnCommits,
                   refreshCalls, passNo, startTable, prevTable>>
    /\ UNCHANGED floatVars

\* the cursor is exhausted: the commit of the last collector
StreamEnd ==
    /\ pc = "stream"
    /\ cursor = <<>>
    /\ LET c == commit(collector[1], stored, project_dir, "stream")
       IN  IF collector = <<>>
           THEN /\ pc' = "todo"
                /\ UNCHANGED <<stored, collector, commitLog, raised>>
           ELSE /\ stored' = c.table
                /\ collector' = <<c.self>>
                /\ commitLog' = Append(commitLog, c.entry)
                /\ raised' = c.raised
                /\ pc' = IF c.raised /= None THEN "aborted" ELSE "todo"
    /\ todo_iter' = todo_countries
    /\ UNCHANGED <<durable, src, project_dir, todo_countries, cursor, addLog,
                   txnCommits, refreshCalls, passNo, startTable, prevTable>>
    /\ UNCHANGED floatVars

\* one turn of "for country in todo_countries"
TodoCountry ==
    /\ pc = "todo"
    /\ \E country \in todo_iter :
        LET c == commit(NewCollector(country, get_matcher(country)),
                        stored, project_dir, "todo")
        IN  /\ stored' = c.table
            /\ commitLog' = Append(commitLog, c.entry)
            /\ raised' = c.raised
            /\ pc' = IF c.raised /= None THEN "aborted" ELSE "todo"
            /\ todo_iter' = todo_iter \ {country}
    /\ UNCHANGED <<durable, src, project_dir, todo_countries, cursor,
                   collector, addLog, txnCommits, refreshCalls, passNo,
                   startTable, prevTable>>
    /\ UNCHANGED floatVars

\* mutant: conn.commit() runs before the loop over todo_countries is over
ConnCommit_early ==
    /\ pc = "todo"
    /\ durable' = stored
    /\ txnCommits' = txnCommits + 1
    /\ pc' = "refresh"
    /\ UNCHANGED <<stored, src, project_dir, todo_countries, todo_iter, cursor,
                   collector, commitLog, addLog, raised, refreshCalls, passNo,
                   startTable, prevTable>>
    /\ UNCHANGED floatVars

\* conn.commit()
ConnCommit ==
    /\ pc = "todo"
    /\ todo_iter = {}
    /\ durable' = stored
    /\ txnCommits' = txnCommits + 1
    /\ pc' = "refresh"
    /\ UNCHANGED <<stored, src, project_dir, todo_countries, todo_iter, cursor,
                   collector, commitLog, addLog, raised, refreshCalls, passNo,
                   startTable, prevTable>>
    /\ UNCHANGED floatVars

\* analyzer.update_postcodes_from_db(), and the return of update_postcodes
UpdatePostcodesFromDb ==
    /\ pc = "refresh"
    /\ refreshCalls' = refreshCalls + 1
    /\ pc' = "done"
    /\ UNCHANGED <<stored, durable, src, project_dir, todo_countries, todo_iter,
                   cursor, collector, commitLog, addLog, raised, txnCommits,
                   passNo, startTable, prevTable>>
    /\ UNCHANGED floatVars

\* update_postcodes is called again, on unchanged place data and files
NextPass ==
    /\ pc = "done"
    /\ passNo < MaxPasses
    /\ passNo' = passNo + 1
    /\ prevTable' = stored
    /\ pc' = "idle"
    /\ UNCHANGED <<stored, durable, src, project_dir, todo_countries, todo_iter,
                   cursor, collector, commitLog, addLog, raised, txnCommits,
                   refreshCalls, startTable>>
    /\ UNCHANGED floatVars

Next ==
    \/ ReadCountries
    \/ StreamRow
    \/ StreamEnd
    \/ TodoCountry
    \/ ConnCommit
    \/ UpdatePostcodesFromDb
    \/ NextPass

Spec == Init /\ [][Next]_vars

(***************************************************************************)
(* update_postcodes with failing storage operations                        *)
(***************************************************************************)
\* mutant: the exception is swallowed and update_postcodes goes on
Unwind_swallow(exc, next) == next

\* update_postcodes has no handler: the position after a call that raised
\* exc (None: it returned), next being the statement that follows the call
Unwind(exc, next) == IF exc /= None THEN "aborted" ELSE next

\* the SELECT DISTINCT, or the execute of the placex_postcodes query, raises
FailReadCountries ==
    /\ pc = "idle"
    /\ todo_countries' = {}
    /\ todo_iter' = {}
    /\ cursor' = <<>>
    /\ collector' = <<>>
    /\ commitLog' = <<>>
    /\ addLog' = <<>>
    /\ txnCommits' = 0
    /\ refreshCalls' = 0
    /\ startTable' = stored
    /\ raised' = DatabaseError
    /\ pc' = Unwind(DatabaseError, "stream")
    /\ UNCHANGED <<stored, durable, src, project_dir, passNo, prevTable>>
    /\ UNCHANGED floatVars

\* a fetch of the placex_postcodes cursor raises
FailStreamRead ==
    /\ pc = "stream"
    /\ raised' = DatabaseError
    /\ pc' = Unwind(DatabaseError, "stream")
    /\ UNCHANGED <<stored, durable, src, project_dir, todo_countries, todo_iter,
                   cursor, collector, commitLog, addLog, txnCommits,
                   refreshCalls, passNo, startTable, prevTable>>
    /\ UNCHANGED floatVars

\* a statement of the commit of the open collector raises, at a change of
\* country or at the end of the stream
FailStreamCommit ==
    /\ pc = "stream"
    /\ collector /= <<>>
    /\ IF cursor = <<>> THEN TRUE
       ELSE Head(cursor).cc /= collector[1].country
    /\ \E op \in StorageOps :
        /\ Reaches(collector[1], stored, project_dir, op)
        /\ \E done \in DoneOf(collector[1], stored, project_dir, op) :
            LET c == commit_fail(collector[1], stored, project_dir, "stream",
                                 op, done)
            IN  /\ stored' = c.table
                /\ collector' = <<c.self>>
                /\ commitLog' = Append(commitLog, c.entry)
                /\ raised' = c.raised
                /\ pc' = Unwind(c.raised, "stream")
    /\ UNCHANGED <<durable, src, project_dir, todo_countries, todo_iter,
                   cursor, addLog, txnCommits, refreshCalls, passNo,
                   startTable, prevTable>>
    /\ UNCHANGED floatVars

\* a statement of the commit of a storage-only country raises
FailTodoCommit ==
    /\ pc = "todo"
    /\ \E country \in todo_iter, op \in StorageOps :
        LET self == NewCollector(country, get_matcher(country))
        IN  /\ Reaches(self, stored, project_dir, op)
            /\ \E done \in DoneOf(self, stored, project_dir, op) :
                LET c == commit_fail(self, stored, project_dir, "todo",
                                     op, done)
                IN  /\ stored' = c.table
                    /\ commitLog' = Append(commitLog, c.entry)
                    /\ raised' = c.raised
                    /\ pc' = Unwind(c.raised, "todo")
                    /\ todo_iter' = todo_iter \ {country}
    /\ UNCHANGED <<durable, src, project_dir, todo_countries, cursor,
                   collector, addLog, txnCommits, refreshCalls, passNo,
                   startTable, prevTable>>
    /\ UNCHANGED floatVars

\* conn.commit() raises
FailConnCommit ==
    /\ pc = "todo"
    /\ todo_iter = {}
    /\ raised' = DatabaseError
    /\ pc' = Unwind(DatabaseError, "refresh")
    /\ UNCHANGED <<stored, durable, src, project_dir, todo_countries, todo_iter,
                   cursor, collector, commitLog, addLog, txnCommits,
                   refreshCalls, passNo, startTable, prevTable>>
    /\ UNCHANGED floatVars

NextFault ==
    \/ Next
    \/ FailReadCountries
    \/ FailStreamRead
    \/ FailStreamCommit
    \/ FailTodoCommit
    \/ FailConnCommit

SpecFault == Init /\ [][NextFault]_vars

(***************************************************************************)
(* update_postcodes on a stored postcode and points close to it            *)
(***************************************************************************)
\* the row of location_postcode: de, 10115 at (13.0, 52.0)
NearStored == Row("de", "10115", 13 * Scale, 52 * Scale, 0)

\* distances, in units of 1e-7 degree, of the recomputed centroid from the
\* stored point: 10 units are 0.000001 degree
NearOffsets == {-10, -2, -1, 0, 1, 2, 10}

\* the results of the placex_postcodes query: one row at the distance
\* (dx, dy) from the stored point, or the stored point and a point at twice
\* the distance, whose mean is at the distance (dx, dy)
NearStreams ==
    {<<SrcRow("de", "10115", NearStored.x + dx, NearStored.y + dy)>> :
        dx \in NearOffsets, dy \in NearOffsets}
    \cup
    {<<SrcRow("de", "10115", NearStored.x, NearStored.y),
       SrcRow("de", "10115", NearStored.x + 2 * dx, NearStored.y + 2 * dy)>> :
        dx \in NearOffsets, dy \in NearOffsets}

InitNear ==
    /\ stored \in {{NearStored}, {NearStored, Row("fr", "75002", 0, 0, 0)}}
    /\ durable = stored
    /\ src \in NearStreams
    /\ project_dir \in {<<>>, <<NoFiles>>}
    /\ pc = "idle"
    /\ todo_countries = {}
    /\ todo_iter = {}
    /\ cursor = <<>>
    /\ collector = <<>>
    /\ commitLog = <<>>
    /\ addLog = <<>>
    /\ raised = None
    /\ txnCommits = 0
    /\ refreshCalls = 0
    /\ passNo = 1
    /\ startTable = stored
    /\ prevTable = stored
    /\ fl_numstr = <<>>
    /\ fl_max = 0
    /\ fl_res = <<>>
    /\ fl_pc = "off"

SpecNear == InitNear /\ [][Next]_vars

(***************************************************************************)
(* _PostcodeCollector.add on its own                                       *)
(***************************************************************************)
\* most add calls on one collector
MaxAdds == 4

\* the raw postcodes and points of the calls
AddPostcodes == {"00000", "10115", "1011X", "D-10115", "75001"}

AddPoints == {<<0, 0>>, <<12, 12>>}

\* a fresh collector of any country; addLog keeps every call made on it
InitAdd ==
    /\ stored = {}
    /\ durable = {}
    /\ src = <<>>
    /\ project_dir = <<>>
    /\ pc = "add"
    /\ todo_countries = {}
    /\ todo_iter = {}
    /\ cursor = <<>>
    /\ collector \in {<<NewCollector(c, get_matcher(c))>> : c \in Countries}
    /\ commitLog = <<>>
    /\ addLog = <<>>
    /\ raised = None
    /\ txnCommits = 0
    /\ refreshCalls = 0
    /\ passNo = 0
    /\ startTable = {}
    /\ prevTable = {}
    /\ fl_numstr = <<>>
    /\ fl_max = 0
    /\ fl_res = <<>>
    /\ fl_pc = "off"

\* a call collector.add(postcode, x, y)
AddCall ==
    /\ pc = "add"
    /\ Len(addLog) < MaxAdds
    /\ \E postcode \in AddPostcodes, point \in AddPoints :
        /\ collector' = <<add(collector[1], postcode, point[1], point[2])>>
        /\ addLog' = Append(addLog, [postcode |-> postcode,
                                     x |-> point[1], y |-> point[2]])
    /\ UNCHANGED <<stored, durable, src, project_dir, pc, todo_countries,
                   todo_iter, cursor, commitLog, raised, txnCommits,
                   refreshCalls, passNo, startTable, prevTable>>
    /\ UNCHANGED floatVars

SpecAdd == InitAdd /\ [][AddCall]_vars

(***************************************************************************)
(* _to_float on its own                                                    *)
(***************************************************************************)
\* the texts a coordinate field is drawn from: signed and unsigned decimal
\* literals around the bounds 90 and 180, and texts that are no number
FloatSigns == {<<>>, <<"-">>, <<"+">>}

FloatInts ==
    {<<"0">>, <<"8", "9">>, <<"9", "0">>, <<"9", "1">>,
     <<"1", "7", "9">>, <<"1", "8", "0">>, <<"1", "8", "1">>}

FloatFracs ==
    {<<>>, <<".", "0">>, <<".", "9", "9", "9", "9", "9", "9">>,
     <<".", "0", "0", "0", "0", "0", "0", "1">>}

FloatTexts ==
    {s \o i \o f : s \in FloatSigns, i \in FloatInts, f \in FloatFracs}
    \cup {<<>>, <<".">>, <<".", "5">>, <<"a", "b", "c">>,
          <<"1", ".", "2", ".", "3">>, <<"n", "a", "n">>, <<"i", "n", "f">>,
          <<"-", "i", "n", "f">>, NoneTxt}

InitFloat ==
    /\ stored = {}
    /\ durable = {}
    /\ src = <<>>
    /\ project_dir = <<>>
    /\ pc = "off"
    /\ todo_countries = {}
    /\ todo_iter = {}
    /\ cursor = <<>>
    /\ collector = <<>>
    /\ commitLog = <<>>
    /\ addLog = <<>>
    /\ raised = None
    /\ txnCommits = 0
    /\ refreshCalls = 0
    /\ passNo = 0
    /\ startTable = {}
    /\ prevTable = {}
    /\ fl_numstr \in FloatTexts
    /\ fl_max \in {180, 90}
    /\ fl_res = <<>>
    /\ fl_pc = "call"

\* a call _to_float(numstr, max_value)
ToFloatCall ==
    /\ fl_pc = "call"
    /\ fl_res' = <<_to_float(fl_numstr, fl_max)>>
    /\ fl_pc' = "return"
    /\ UNCHANGED <<fl_numstr, fl_max>>
    /\ UNCHANGED passVars

SpecFloat == InitFloat /\ [][ToFloatCall]_vars

(***************************************************************************)
(* Properties                                                              *)
(***************************************************************************)
\* the commits of the current pass that computed their diff
Commits == {commitLog[n] : n \in 1..Len(commitLog)}

Computed == {e \in Commits : e.raised = None}

\* a coordinate text is a finite number strictly inside (-max, max)
StrictlyInside(text, max_value) ==
    /\ PyFloat(text).k = "num"
    /\ -(max_value * Scale) < PyFloat(text).v
    /\ PyFloat(text).v < max_value * Scale

StoredPcs(table, country) == {r.pc : r \in RowsOf(table, country)}

AddKeys(e) == {t[1] : t \in e.to_add}

UpdateKeys(e) == {t[3] : t \in e.to_update}

\* C1: in every commit whose SELECT returned at most one row per postcode,
\* to-add holds exactly the collected postcodes that are not stored,
\* to-delete exactly the stored postcodes that are not collected, to-update
\* only postcodes both stored and collected, and the three are pairwise
\* disjoint.
C1_DiffPartition ==
    \A e \in Computed :
        (\A r, q \in e.rows : r.pc = q.pc => r = q) =>
            /\ AddKeys(e) = DOMAIN e.merged \ StoredPcs(e.rows, e.country)
            /\ e.to_delete = StoredPcs(e.rows, e.country) \ DOMAIN e.merged
            /\ UpdateKeys(e) \subseteq
                  StoredPcs(e.rows, e.country) \cap DOMAIN e.merged
            /\ AddKeys(e) \cap e.to_delete = {}
            /\ AddKeys(e) \cap UpdateKeys(e) = {}
            /\ e.to_delete \cap UpdateKeys(e) = {}

\* a commit whose diff adds a postcode, deletes another and updates a third
C1_Witness ==
    \E e \in Computed :
        /\ e.to_add /= {}
        /\ e.to_delete /= {}
        /\ e.to_update /= {}

\* the countries of the rows of the placex_postcodes query
StreamCountries == {src[i].cc : i \in 1..Len(src)}

\* the canonical postcode add derives from a raw postcode of the stream
Canonical(country, raw) ==
    IF get_matcher(country) = None THEN None
    ELSE IF match(get_matcher(country), raw) = None THEN None
    ELSE normalize(get_matcher(country), match(get_matcher(country), raw))

\* the normalized postcodes of the stream rows of a country
StreamCanon(country) ==
    {Canonical(country, src[i].pc) :
        i \in {j \in 1..Len(src) : src[j].cc = country}} \ {None, ""}

\* the external file commit reads for a country, 0 for none
FileOf(country) ==
    IF project_dir = <<>> THEN 0 ELSE _open_external(country, project_dir[1])

\* the header of the external file has the three columns
HasColumns(country) ==
    /\ FileOf(country) /= 0
    /\ ExtFile(FileOf(country)).fieldnames = <<"postcode", "lat", "lon">>

\* a line of a three-column file has both coordinates, finite and strictly
\* inside the ranges
ValidLine(line) ==
    /\ Len(line) = 3
    /\ StrictlyInside(line[2], 90)
    /\ StrictlyInside(line[3], 180)

\* the lines of the external file of a country
ExtLines(country) ==
    IF HasColumns(country)
    THEN {ExtFile(FileOf(country)).lines[n] :
            n \in 1..Len(ExtFile(FileOf(country)).lines)}
    ELSE {}

\* the numbers of the files of the catalogue ExtFile
FileIds == {1, 2, 3, 4}

\* for every file of the catalogue, the normalized postcodes of its valid
\* lines
ValidPostcodes ==
    [id \in FileIds |->
        {normalize_postcode(ExtFile(id).lines[n][1]) :
            n \in {m \in 1..Len(ExtFile(id).lines) :
                      ValidLine(ExtFile(id).lines[m])}}]

\* the normalized postcodes of the valid rows of the external file
ExtValid(country) ==
    IF HasColumns(country) THEN ValidPostcodes[FileOf(country)] ELSE {}

\* the canonical postcodes a pass recomputes for a country
Recomputed(country) == StreamCanon(country) \cup ExtValid(country)

\* the countries a pass opens a collector for
PassCountries == StreamCountries \cup {r.cc : r \in startTable}

\* C2 as stated: after a complete pass the stored postcodes of every country
\* are exactly the recomputed ones.
C2_EveryCountry ==
    pc = "done" =>
        \A c \in Countries : StoredPcs(stored, c) = Recomputed(c)

\* C2: after a complete pass the stored postcodes of every country that
\* occurs in the stream or had stored postcodes when the pass started are
\* exactly the recomputed ones, and every other country has none stored.
C2_PassCountries ==
    pc = "done" =>
        /\ \A c \in PassCountries : StoredPcs(stored, c) = Recomputed(c)
        /\ \A c \in Countries \ PassCountries : StoredPcs(stored, c) = {}

\* a complete pass over a country with a postcode from the stream and another
\* from its external file, and a stored postcode that had to go
C2_Witness ==
    /\ pc = "done"
    /\ \E c \in PassCountries :
        /\ StreamCanon(c) /= {}
        /\ ExtValid(c) \ StreamCanon(c) /= {}
        /\ StoredPcs(startTable, c) \ Recomputed(c) /= {}

Abs(n) == IF n < 0 THEN -n ELSE n

\* C3 as stated: a stored postcode that is collected is in to-update, with
\* the recomputed centroid, exactly if its stored point is further than the
\* tolerance from the centroid in a coordinate, in either direction.
C3_SymmetricTolerance ==
    \A e \in Computed : \A r \in e.rows :
        r.pc \in DOMAIN e.merged =>
            IF \/ Abs(r.x - centroid(e.merged[r.pc])[1]) > Tolerance
               \/ Abs(r.y - centroid(e.merged[r.pc])[2]) > Tolerance
            THEN <<centroid(e.merged[r.pc])[1], centroid(e.merged[r.pc])[2],
                   r.pc>> \in e.to_update
            ELSE r.pc \notin UpdateKeys(e)

\* C4: in a pass that follows a complete pass over the same stream and the
\* same files every commit computes an empty to-add, to-delete and
\* to-update, and the table after it is the table after the pass before.
C4_SecondPassEmpty ==
    (passNo >= 2 /\ pc /= "idle") =>
        /\ \A e \in Commits :
              e.to_add = {} /\ e.to_delete = {} /\ e.to_update = {}
        /\ pc /= "aborted"
        /\ stored = prevTable

\* a second pass is complete, after a first pass that updated a row, and it
\* committed a country with stored postcodes, some collected from the stream
\* and some from the external file
C4_Witness ==
    /\ passNo = 2
    /\ pc = "done"
    /\ \E e \in Commits : e.rows /= {} /\ DOMAIN e.pre /= {}
                          /\ DOMAIN e.merged /= DOMAIN e.pre
    /\ \E r \in stored : r.st = 2

\* the normalized postcodes of all rows of the external file of a country
ExtPostcodes(country) == {normalize_postcode(line[1]) : line \in ExtLines(country)}

\* C5: the external merge of a commit leaves the accumulator of every
\* postcode collected from the stream as it is, so that the point the diff
\* adds or updates for it is the mean of the stream points only.
C5_StreamFirst ==
    \A e \in Commits :
        /\ DOMAIN e.pre \subseteq DOMAIN e.merged
        /\ \A k \in DOMAIN e.pre :
            /\ e.merged[k] = e.pre[k]
            /\ \A t \in e.to_add :
                  t[1] = k => <<t[2], t[3]>> = centroid(e.pre[k])
            /\ \A t \in e.to_update :
                  t[3] = k => <<t[1], t[2]>> = centroid(e.pre[k])

\* a commit of a country whose external file has a valid row, with other
\* coordinates, for a postcode collected from the stream, which is updated
C5_Witness ==
    \E e \in Computed : \E k \in DOMAIN e.pre :
        /\ k \in ExtValid(e.country)
        /\ k \in UpdateKeys(e)

\* the countries with stored postcodes at the start of the pass and no row
\* in the stream
StorageOnly == {r.cc : r \in startTable} \ StreamCountries

\* C6 as stated: every storage-only country gets a commit of an empty
\* collector that puts all its stored postcodes into to-delete, and none of
\* them is stored after the pass, whatever the project directory holds.
C6_AllDeleted ==
    /\ \A e \in Computed :
        e.kind = "todo" =>
            /\ DOMAIN e.pre = {}
            /\ e.to_delete = StoredPcs(e.rows, e.country)
    /\ pc = "done" =>
        \A c \in StorageOnly :
            /\ \E e \in Computed : e.country = c /\ e.kind = "todo"
            /\ StoredPcs(stored, c) \cap StoredPcs(startTable, c) = {}

\* C6: every storage-only country gets a commit of an empty collector that
\* puts into to-delete all its stored postcodes except those a valid row of
\* its external file supplies; after the pass only such postcodes are still
\* stored, and none when the country has no external file.
C6_DeletedUnlessExternal ==
    /\ \A e \in Computed :
        e.kind = "todo" =>
            /\ e.country \in StorageOnly
            /\ DOMAIN e.pre = {}
            /\ e.to_delete = StoredPcs(e.rows, e.country) \ ExtValid(e.country)
    /\ pc = "done" =>
        \A c \in StorageOnly :
            /\ \E e \in Computed : e.country = c /\ e.kind = "todo"
            /\ StoredPcs(stored, c) \cap StoredPcs(startTable, c)
                  \subseteq ExtValid(c)
            /\ FileOf(c) = 0 => StoredPcs(stored, c) = {}

\* a complete pass with a storage-only country of which one stored postcode
\* was deleted and another, supplied by the external file, was kept
C6_Witness ==
    /\ pc = "done"
    /\ \E e \in Computed :
        /\ e.kind = "todo"
        /\ e.to_delete /= {}
        /\ StoredPcs(e.rows, e.country) \cap ExtValid(e.country) /= {}

\* C7 as stated: without a matcher add folds the point into the accumulator
\* of the raw postcode.
C7_RawKey ==
    (addLog /= <<>> /\ addLog[1].before.matcher = None) =>
        /\ addLog[1].postcode \in DOMAIN addLog[1].after.collected
        /\ addLog[1].after.collected =
              FoldInto(addLog[1].before.collected, addLog[1].postcode,
                       addLog[1].x, addLog[1].y)

\* C7: without a matcher add leaves the collector as it is: the row is
\* dropped, and at its commit the collector has nothing from the stream.
C7_NoMatcherDrops ==
    /\ (addLog /= <<>> /\ addLog[1].before.matcher = None) =>
          addLog[1].after = addLog[1].before
    /\ \A e \in Commits :
          get_matcher(e.country) = None => DOMAIN e.pre = {}

\* add was called on a collector without matcher, which was then committed
C7_Witness ==
    /\ addLog /= <<>>
    /\ addLog[1].before.matcher = None
    /\ \E e \in Computed : e.country = addLog[1].before.country
                           /\ e.kind = "stream"

\* the external file of a country lacks one of the three columns
MissingColumn(country) == FileOf(country) /= 0 /\ ~HasColumns(country)

\* C9: a commit of a country whose external file lacks a column folds no
\* external row, raises nothing and computes its diff from the stream data,
\* which the pass applies; every commit folds the valid rows of the file of
\* its own country.
C9_BadFormatLocal ==
    /\ \A e \in Commits :
        /\ MissingColumn(e.country) =>
            /\ e.raised = None
            /\ e.merged = e.pre
            /\ AddKeys(e) = DOMAIN e.pre \ StoredPcs(e.rows, e.country)
            /\ e.to_delete = StoredPcs(e.rows, e.country) \ DOMAIN e.pre
        /\ e.raised = None =>
              DOMAIN e.merged = DOMAIN e.pre \cup ExtValid(e.country)
    /\ pc = "done" =>
        \A c \in PassCountries :
            MissingColumn(c) => StoredPcs(stored, c) = StreamCanon(c)

\* a complete pass that added a stream postcode for a country whose file
\* lacks a column, and an external postcode for another country
C9_Witness ==
    /\ pc = "done"
    /\ \E e1, e2 \in Computed :
        /\ MissingColumn(e1.country)
        /\ DOMAIN e1.pre /= {}
        /\ e1.to_add /= {}
        /\ e2.country /= e1.country
        /\ AddKeys(e2) \cap ExtValid(e2.country) /= {}

\* C10 as stated: an external row with a coordinate that is no number inside
\* the range, and a stream row whose postcode does not match or normalizes
\* to nothing, leave the mapping as it is and raise nothing, and the valid
\* rows after them are folded.
C10_RowLocalSkip ==
    /\ raised = None
    /\ \A e \in Commits :
        /\ e.raised = None
        /\ DOMAIN e.merged = DOMAIN e.pre \cup ExtValid(e.country)
    /\ (addLog /= <<>> /\ addLog[1].before.matcher /= None
        /\ ~Truthy(Canonical(addLog[1].before.country, addLog[1].postcode))) =>
          addLog[1].after.collected = addLog[1].before.collected

\* C11: once a storage operation has raised, update_postcodes is left with
\* the exception: the transaction of the pass was not and is not committed,
\* update_postcodes_from_db was not and is not called, and no further
\* collector is committed.
C11_StorageFailureFatal ==
    /\ [](raised = DatabaseError =>
            /\ pc = "aborted"
            /\ txnCommits = 0
            /\ refreshCalls = 0
            /\ durable = startTable)
    /\ [][raised = DatabaseError =>
            UNCHANGED <<commitLog, stored, durable, txnCommits, refreshCalls>>]_vars

\* the DELETE of the second commit of a pass raised after the INSERT had
\* added a row, while a country was still waiting for its commit
C11_Witness ==
    /\ raised = DatabaseError
    /\ Len(commitLog) >= 2
    /\ commitLog[Len(commitLog)].raised = DatabaseError
    /\ Computed /= {}
    /\ stored /= startTable
    /\ (cursor /= <<>> \/ todo_iter /= {} \/ todo_countries /= {})
    /\ txnCommits = 0
    /\ refreshCalls = 0

\* the countries whose collector was committed in the current pass
Committed == {e.country : e \in Computed}

\* C12: a pass that completes has called conn.commit() once and
\* update_postcodes_from_db once; conn.commit() is called only when the
\* collector of every stream country and an empty collector of every
\* storage-only country have been committed, no collector is committed after
\* it, and update_postcodes_from_db is called only after it.
C12_CommitThenRefresh ==
    /\ [](pc = "done" =>
            txnCommits = 1 /\ refreshCalls = 1 /\ durable = stored)
    /\ [](refreshCalls <= txnCommits /\ txnCommits <= 1)
    /\ [](txnCommits = 1 =>
            /\ Committed = PassCountries
            /\ \A c \in StreamCountries :
                  \E e \in Computed : e.country = c /\ e.kind = "stream"
            /\ \A c \in StorageOnly :
                  \E e \in Computed :
                      e.country = c /\ e.kind = "todo" /\ e.pre = EmptyDict)
    /\ [][(txnCommits = 1 /\ txnCommits' = 1) =>
            UNCHANGED <<commitLog, stored, durable>>]_vars
    /\ [][refreshCalls' = refreshCalls + 1 =>
            (txnCommits = 1 /\ durable = stored)]_vars

\* a complete pass that committed a stream country and a storage-only country
C12_Witness ==
    /\ pc = "done"
    /\ txnCommits = 1
    /\ refreshCalls = 1
    /\ \E e1, e2 \in Computed : e1.kind = "stream" /\ e2.kind = "todo"
    /\ durable /= startTable

\* the number of commits of the current pass for a country
CommitsOf(country) ==
    Cardinality({n \in 1..Len(commitLog) : commitLog[n].country = country})

\* the countries of the rows the stream cursor has returned
Consumed == {src[i].cc : i \in 1..(Len(src) - Len(cursor))}

\* C13: no country gets two commits in a pass; while the stream is read the
\* committed countries are those of the rows read except the country of the
\* open collector; a stream country is committed as such and is no longer in
\* todo_countries, a storage-only country is committed with an empty
\* collector; when the loops are over every country of the stream or of the
\* stored country set has exactly one commit.
C13_OneCommitPerCountry ==
    /\ \A c \in Countries : CommitsOf(c) <= 1
    /\ \A e \in Commits :
        /\ e.country \in PassCountries
        /\ e.kind = "stream" <=> e.country \in StreamCountries
        /\ e.kind = "todo" => e.pre = EmptyDict
    /\ pc = "stream" =>
        /\ collector = <<>> <=> Consumed = {}
        /\ collector /= <<>> =>
              /\ collector[1].country \in Consumed
              /\ {e.country : e \in Commits} =
                    Consumed \ {collector[1].country}
        /\ todo_countries = {r.cc : r \in startTable} \ Consumed
    /\ pc \in {"todo", "refresh", "done"} => todo_countries = StorageOnly
    /\ pc \in {"refresh", "done"} =>
          \A c \in PassCountries : CommitsOf(c) = 1

\* a complete pass over a country with stored postcodes and stream rows, a
\* country with stream rows only and a storage-only country
C13_Witness ==
    /\ pc = "done"
    /\ StreamCountries \cap {r.cc : r \in startTable} /= {}
    /\ StreamCountries \ {r.cc : r \in startTable} /= {}
    /\ StorageOnly /= {}
    /\ Len(commitLog) = 3

\* C14: location_postcode, as the connection sees it and as committed, has
\* at most one row per (country_code, postcode) at every point of every
\* pass, and no commit adds a postcode that the table holds for its country.
C14_UniqueKeys ==
    /\ UniqueKeys(stored)
    /\ UniqueKeys(durable)
    /\ \A e \in Computed :
          AddKeys(e) \cap {r.pc : r \in e.rows} = {}

\* a second pass is complete and the table holds, for one country, a row
\* that a commit inserted beside a row that was stored before the passes
C14_Witness ==
    /\ passNo = 2
    /\ pc = "done"
    /\ \E r, q \in stored : r.cc = q.cc /\ r.st = 1 /\ q.st /= 1
    /\ \E e \in Computed : e.rows /= {} /\ DOMAIN e.merged /= {}

\* every accumulator of a mapping has a point folded into it
Folded(collected) == \A k \in DOMAIN collected : collected[k].count >= 1

\* C15: every accumulator of the open collector, and of every collector as
\* it was committed and as its external merge left it, has a point folded
\* into it; add creates no entry for a postcode it drops, and the external
\* merge creates entries only for postcodes of valid rows, one point each.
C15_NoEmptyAccumulator ==
    /\ collector /= <<>> => Folded(collector[1].collected)
    /\ addLog /= <<>> =>
        /\ Folded(addLog[1].after.collected)
        /\ DOMAIN addLog[1].after.collected \subseteq
              DOMAIN addLog[1].before.collected
                \cup {Canonical(addLog[1].before.country, addLog[1].postcode)}
    /\ \A e \in Commits :
        /\ Folded(e.pre)
        /\ Folded(e.merged)
        /\ DOMAIN e.merged \subseteq DOMAIN e.pre \cup ExtValid(e.country)
        /\ \A k \in DOMAIN e.merged \ DOMAIN e.pre : e.merged[k].count = 1

\* a commit of a collector with stream postcodes whose external file has
\* rows rejected for their coordinates and a row that was folded and added
C15_Witness ==
    \E e \in Computed :
        /\ DOMAIN e.pre /= {}
        /\ ExtPostcodes(e.country) \ ExtValid(e.country) /= {}
        /\ AddKeys(e) \cap ExtValid(e.country) /= {}

\* the commit of de finds 10115 stored at (13.0, 52.0) and nothing else, and
\* has recomputed 10115, and nothing else, at (13.000001, 52.000001)
SmallerStored(e) ==
    /\ e.country = "de"
    /\ e.rows = {NearStored}
    /\ DOMAIN e.merged = {"10115"}
    /\ centroid(e.merged["10115"]) = <<NearStored.x + 10, NearStored.y + 10>>

\* C16: a commit of de that finds 10115 stored at (13.0, 52.0) and has
\* recomputed it at (13.000001, 52.000001) computes an empty to-add,
\* to-delete and to-update, and the complete pass leaves the row as it was.
C16_SmallerStoredNoMutation ==
    /\ \A e \in Computed :
        SmallerStored(e) =>
            e.to_add = {} /\ e.to_delete = {} /\ e.to_update = {}
    /\ (pc = "done" /\ \E e \in Computed : SmallerStored(e)) =>
          RowsOf(stored, "de") = {NearStored}

\* a complete pass whose commit of de met the case, the centroid being the
\* mean of two points
C16_Witness ==
    /\ pc = "done"
    /\ Len(src) = 2
    /\ \E e \in Computed : SmallerStored(e) /\ e.merged["10115"].count = 2
    /\ NearStored \in stored

\* what the commit with log entry e made of table before: after
FrameOf(e, before, after) ==
    /\ \A r \in before :
          (r.cc /= e.country \/ r.pc \notin e.to_delete \cup UpdateKeys(e))
              => r \in after
    /\ \A r \in before \ after :
          r.cc = e.country /\ r.pc \in e.to_delete \cup UpdateKeys(e)
    /\ \A r \in after \ before :
        /\ r.cc = e.country
        /\ \/ r.st = 1 /\ <<r.pc, r.x, r.y>> \in e.to_add
           \/ /\ r.st = 2
              /\ <<r.x, r.y, r.pc>> \in e.to_update
              /\ \E q \in before \ after : q.cc = r.cc /\ q.pc = r.pc
    /\ \A t \in e.to_add : Row(e.country, t[1], t[2], t[3], 1) \in after
    /\ \A t \in e.to_update : Row(e.country, t[3], t[1], t[2], 2) \in after
    /\ \A k \in e.to_delete : k \notin StoredPcs(after, e.country)

\* C17: a step that commits a collector leaves every row of another country
\* and every row of its country that is in neither to-delete nor to-update
\* as it is; the rows it adds are the to-add tuples with its country and
\* indexed_status 1 and the to-update tuples with the country and postcode
\* of the row they replace and indexed_status 2; the rows it removes are
\* those of to-delete and the old versions of those of to-update. No other
\* step changes the table.
C17_CommitFrame ==
    [][IF Len(commitLog') = Len(commitLog) + 1
       THEN FrameOf(commitLog'[Len(commitLog')], stored, stored')
       ELSE stored' = stored]_vars

\* the last commit has added a row and updated a row of its country, and
\* the table holds the row of another country as it was before the pass
C17_Witness ==
    /\ commitLog /= <<>>
    /\ LET e == commitLog[Len(commitLog)]
       IN  /\ e.raised = None
           /\ e.to_add /= {}
           /\ e.to_update /= {}
           /\ \E r \in stored : r.cc = e.country /\ r.st = 1
           /\ \E r \in stored : r.cc = e.country /\ r.st = 2
           /\ \E r \in stored \cap startTable : r.cc /= e.country

\* the mapping after a call when match and normalize are run for the call
AddFresh(collected, country, call) ==
    IF Truthy(Canonical(country, call.postcode))
    THEN FoldInto(collected, Canonical(country, call.postcode), call.x, call.y)
    ELSE collected

\* the mapping after the first n calls, match and normalize run for each
RECURSIVE Replay(_, _, _)
Replay(country, calls, n) ==
    IF n = 0 THEN EmptyDict
    ELSE AddFresh(Replay(country, calls, n - 1), country, calls[n])

\* C18: after every sequence of add calls on a collector its mapping is the
\* mapping obtained by running match and normalize for every call.
C18_CacheTransparent ==
    pc = "add" =>
        collector[1].collected =
            Replay(collector[1].country, addLog, Len(addLog))

\* four calls on a collector with a matcher: a raw postcode that is dropped
\* comes twice in a row, and a raw postcode comes again after another one
\* that normalizes to something else
C18_Witness ==
    /\ pc = "add"
    /\ Len(addLog) = MaxAdds
    /\ collector[1].matcher /= None
    /\ DOMAIN collector[1].collected /= {}
    /\ \E i \in 1..(MaxAdds - 1) :
        /\ addLog[i].postcode = addLog[i + 1].postcode
        /\ ~Truthy(Canonical(collector[1].country, addLog[i].postcode))
    /\ \E j \in 1..(MaxAdds - 2) :
        /\ addLog[j].postcode = addLog[j + 2].postcode
        /\ Canonical(collector[1].country, addLog[j].postcode)
              /= Canonical(collector[1].country, addLog[j + 1].postcode)

\* the numbers of all lines of a file for a postcode, and of the valid ones
LinesAt(id, k) ==
    {n \in 1..Len(ExtFile(id).lines) :
        normalize_postcode(ExtFile(id).lines[n][1]) = k}

ValidAt(id, k) == {n \in LinesAt(id, k) : ValidLine(ExtFile(id).lines[n])}

\* (lon, lat) of a valid line
PointOf(line) == <<PyFloat(line[3]).v, PyFloat(line[2]).v>>

\* for every file with the three columns and every postcode with a valid
\* line in it, the (lon, lat) of the first valid line of the postcode
FirstPoints ==
    [id \in FileIds |->
        IF ExtFile(id).fieldnames /= <<"postcode", "lat", "lon">>
        THEN [k \in {} |-> <<0, 0>>]
        ELSE [k \in {normalize_postcode(ExtFile(id).lines[n][1]) :
                        n \in {m \in 1..Len(ExtFile(id).lines) :
                                  ValidLine(ExtFile(id).lines[m])}} |->
                PointOf(ExtFile(id).lines[
                    CHOOSE n \in ValidAt(id, k) :
                        \A m \in ValidAt(id, k) : n <= m])]]

\* C19: for every postcode a commit takes from the external file, not being
\* collected from the stream, the accumulator holds one point, the (lon,
\* lat) of the first line of the file with that postcode and valid
\* coordinates, and the diff adds or updates the postcode with this point;
\* this is so for every postcode with a valid line.
C19_FirstValidRow ==
    \A e \in Computed :
        DOMAIN e.merged /= DOMAIN e.pre =>
            /\ FileOf(e.country) /= 0
            /\ DOMAIN e.merged =
                  DOMAIN e.pre \cup DOMAIN FirstPoints[FileOf(e.country)]
            /\ \A k \in DOMAIN e.merged \ DOMAIN e.pre :
                /\ e.merged[k] =
                      fold(PointsCentroid, FirstPoints[FileOf(e.country)][k][1],
                           FirstPoints[FileOf(e.country)][k][2])
                /\ \A t \in e.to_add :
                      t[1] = k =>
                          <<t[2], t[3]>> = FirstPoints[FileOf(e.country)][k]
                /\ \A t \in e.to_update :
                      t[3] = k =>
                          <<t[1], t[2]>> = FirstPoints[FileOf(e.country)][k]

\* a commit added or updated a postcode that is not collected from the
\* stream and has, in the external file, lines with bad coordinates, then
\* a valid line, then another valid line with another point
C19_Witness ==
    \E e \in Computed : \E k \in DOMAIN e.merged \ DOMAIN e.pre :
        /\ k \in AddKeys(e) \cup UpdateKeys(e)
        /\ \E n \in LinesAt(FileOf(e.country), k) \ ValidAt(FileOf(e.country), k) :
              \A m \in ValidAt(FileOf(e.country), k) : n < m
        /\ \E n, m \in ValidAt(FileOf(e.country), k) :
              PointOf(ExtFile(FileOf(e.country)).lines[n])
                /= PointOf(ExtFile(FileOf(e.country)).lines[m])

====
